---- MODULE Spec2Model ----
(***************************************************************************)
(* get_octopart_products.py: a sitemap scraper.                            *)
(*                                                                         *)
(* Step 1 fetches the sitemap index with one visible browser, step 2       *)
(* fetches every sub-sitemap the index lists through a thread pool of      *)
(* MAX_WORKERS headless browsers and merges the <loc> texts into a set,    *)
(* step 3 sorts the set and writes it to the output file.                  *)
(*                                                                         *)
(* A string is a sequence of code points, a page is the sequence of its    *)
(* elements in document order, and what every browser session will meet    *)
(* (the web site, the network, the local Chrome) is the input `env`,       *)
(* fixed when the script starts: the only nondeterminism left is the       *)
(* scheduling of the worker threads and of as_completed.                   *)
(***************************************************************************)
EXTENDS Integers, Sequences, FiniteSets

VARIABLES
    env,                \* what each call of fetch_page_with_uc will meet
    pc,                 \* position of the main thread
    index_calls,        \* calls of fetch_page_with_uc(SITEMAP_INDEX_URL, ...)
    index_headless,     \* headless_mode of the call at line 71
    index_page_content, \* line 71
    sub_sitemaps,       \* line 78
    executor,           \* the ThreadPoolExecutor of line 91
    future_to_url,      \* line 93: one record per submitted future
    processed,          \* futures that as_completed has yielded (line 95)
    all_product_urls,   \* line 86
    sorted_urls,        \* line 108
    output_file,        \* OUTPUT_FILE on disk
    browsers            \* Chrome instances now open

vars == <<env, pc, index_calls, index_headless, index_page_content,
          sub_sitemaps, executor, future_to_url, processed,
          all_product_urls, sorted_urls, output_file, browsers>>

----------------------------------------------------------------------------
(* Configuration and bounds *)

MAX_WORKERS == 8

\* '\n', the line terminator written at line 112
LF == 10

\* the largest number of <loc> entries of a sitemap index in Spec
MaxSubs == 2

\* how many sub-sitemaps more than MAX_WORKERS the index of SpecPool lists
Excess == 1

----------------------------------------------------------------------------
(* Strings, pages and the values fetch_page_with_uc returns *)

UrlA == <<97>>
UrlB == <<98>>
\* a <loc> whose text starts on a new line: tag.text keeps the whitespace
UrlPadded == <<LF, 97>>

Loc(t) == [tag |-> "loc", text |-> t]
Elem == [tag |-> "url", text |-> <<>>]
\* markup on which BeautifulSoup raises
Junk == [tag |-> "junk", text |-> <<>>]

None == [is_none |-> TRUE, markup |-> <<>>]
Content(m) == [is_none |-> FALSE, markup |-> m]

\* Python truthiness of a returned page: None and '' are falsy
Falsy(v) == v.is_none \/ v.markup = <<>>

\* An outcome of one browser session: Chrome cannot be started, the page
\* does not show a <loc> within the timeout (or get raises), or the page
\* source is returned. page_source is read after the wait, so what is
\* returned need not be the document in which the wait saw a <loc>.
Outcome(k, m) == [kind |-> k, markup |-> m]
ChromeFails == Outcome("chrome_fails", <<>>)
TimesOut == Outcome("times_out", <<>>)
Loads(m) == Outcome("loads", m)

RECURSIVE SeqsUpTo(_, _)
SeqsUpTo(S, n) ==
    IF n = 0 THEN {<<>>}
    ELSE LET shorter == SeqsUpTo(S, n - 1)
         IN shorter \cup {Append(s, x) : s \in shorter, x \in S}

----------------------------------------------------------------------------
(* parse_urls_from_sitemap_content *)

\* find_all() without the tag name: every element is taken for a <loc>
AnyTag(node) == TRUE

IsLoc(node) == node.tag = "loc"

TextsOf(nodes) == [i \in 1..Len(nodes) |-> nodes[i].text]

ParserRaises(markup) == \E i \in 1..Len(markup) : markup[i].tag = "junk"

parse_urls_from_sitemap_content(page_content) ==
    IF Falsy(page_content) THEN <<>>
    ELSE IF ParserRaises(page_content.markup) THEN <<>>
    ELSE TextsOf(SelectSeq(page_content.markup, IsLoc))

Range(s) == {s[i] : i \in 1..Len(s)}

----------------------------------------------------------------------------
(* sorted(list(all_product_urls)) and the file it is written to *)

Min(a, b) == IF a < b THEN a ELSE b

\* str.__lt__: code point by code point, a proper prefix first
LexLess(s, t) ==
    \E k \in 0..Min(Len(s), Len(t)) :
        /\ \A j \in 1..k : s[j] = t[j]
        /\ \/ k = Len(s) /\ k < Len(t)
           \/ k < Len(s) /\ k < Len(t) /\ s[k + 1] < t[k + 1]

RECURSIVE sorted(_)
sorted(S) ==
    IF S = {} THEN <<>>
    ELSE LET least == CHOOSE x \in S : \A y \in S \ {x} : LexLess(x, y)
         IN <<least>> \o sorted(S \ {least})

RECURSIVE FileText(_)
FileText(urls) ==
    IF urls = <<>> THEN <<>>
    ELSE Head(urls) \o <<LF>> \o FileText(Tail(urls))

NoFile == [exists |-> FALSE, data |-> <<>>]
FileWith(d) == [exists |-> TRUE, data |-> d]
\* what an earlier run left behind
StaleFile == FileWith(<<98, 98, LF>>)

\* the lines of a text file: each line ends at its LF, a last line may lack it
RECURSIVE LinesFrom(_, _)
LinesFrom(data, line) ==
    IF data = <<>> THEN (IF line = <<>> THEN <<>> ELSE <<line>>)
    ELSE IF Head(data) = LF THEN <<line>> \o LinesFrom(Tail(data), <<>>)
    ELSE LinesFrom(Tail(data), Append(line, Head(data)))

Lines(data) == LinesFrom(data, <<>>)

----------------------------------------------------------------------------
(* fetch_page_with_uc, as the steps of one call *)

Browser(owner, headless_mode) == [owner |-> owner, headless |-> headless_mode]

\* line 37: uc.Chrome(options=options) returns a driver, or raises
ChromeStarts(outcome) == outcome.kind # "chrome_fails"

\* the except branch hands back the page source instead of None
PageEvenOnFailure(outcome) == Content(outcome.markup)

\* lines 38-49: the value the call returns once a driver exists
PageOrNone(outcome) ==
    IF outcome.kind = "loads" THEN Content(outcome.markup) ELSE None

\* no finally block: the driver is never quit
NeverQuits(open, driver) == open

\* lines 50-52: finally: if driver: driver.quit()
Finally(open, driver) == open \ {driver}

----------------------------------------------------------------------------
(* The inputs: what the site serves and what is on disk *)

SubUrls == {UrlA, UrlB}

\* pages a sub-sitemap URL may serve: two <loc> out of order around another
\* element, the same <loc> twice, a <loc> with padded text, unparsable markup
SubPages ==
    { <<Loc(UrlB), Elem, Loc(UrlA)>>,
      <<Loc(UrlA), Loc(UrlA)>>,
      <<Loc(UrlPadded)>>,
      <<Junk, Loc(UrlB)>> }

SubOutcomes == {ChromeFails, TimesOut} \cup {Loads(m) : m \in SubPages}

\* pages the index URL may serve: up to MaxSubs <loc> entries (none: an empty
\* page), a page without <loc>, unparsable markup, entries among other elements
IndexPages ==
    SeqsUpTo({Loc(u) : u \in SubUrls}, MaxSubs)
        \cup { <<Elem>>, <<Junk, Loc(UrlA)>>, <<Elem, Loc(UrlB)>> }

IndexOutcomes == {ChromeFails, TimesOut} \cup {Loads(m) : m \in IndexPages}

\* the sub-sitemap URLs the script will find when the index call meets `outcome`
Listed(outcome) == parse_urls_from_sitemap_content(PageOrNone(outcome))

Input(index, sub, disk) == [index |-> index, sub |-> sub, disk |-> disk]

\* one outcome per entry of the index, in the order the index lists them
Inputs ==
    UNION { { Input(o, s, d) :
                s \in [1..Len(Listed(o)) -> SubOutcomes],
                d \in {NoFile, StaleFile} } :
            o \in IndexOutcomes }

\* an index that lists more sub-sitemaps than the pool has workers
WideIndex == [i \in 1..(MAX_WORKERS + Excess) |-> Loc(UrlA)]

\* the wide index, where the last session cannot start Chrome and the one
\* before it times out, and the inputs on which the script exits after step 1
PoolInputs ==
    { Input(o, <<>>, NoFile) :
        o \in {ChromeFails, TimesOut, Loads(<<Elem>>)} }
    \cup
    { Input(Loads(WideIndex),
            [i \in 1..Len(WideIndex) |->
                IF i = Len(WideIndex) THEN ChromeFails
                ELSE IF i = Len(WideIndex) - 1 THEN TimesOut
                ELSE Loads(<<Loc(UrlB)>>)],
            NoFile) }

----------------------------------------------------------------------------
(* The main block and the workers *)

\* the index fetched with the default headless_mode
IndexHeadlessDefault == TRUE

\* line 71: headless_mode of the index fetch
IndexHeadlessMode == FALSE

\* line 93: headless_mode of every submitted fetch
SubmitHeadlessMode == TRUE

\* line 93: executor.submit(fetch_page_with_uc, url, headless_mode=True)
Submitted(url) ==
    [url |-> url, headless |-> SubmitHeadlessMode, stage |-> "queued",
     runs |-> 0, result |-> None]

\* the comprehension starts at the second entry
SkipsAnEntry == Len(future_to_url) + 2

\* line 93: the entries of sub_sitemaps still to be submitted
NextEntry == Len(future_to_url) + 1

Running == {i \in DOMAIN future_to_url :
                future_to_url[i].stage \in {"create", "open"}}

\* a pool with a thread per work item
PoolUnbounded == TRUE

\* line 91: ThreadPoolExecutor(max_workers=MAX_WORKERS)
PoolHasFreeWorker == Cardinality(Running) < MAX_WORKERS

\* assignment instead of update: the last sitemap merged wins
Overwritten(urls, urls_from_sitemap) == Range(urls_from_sitemap)

\* line 100: all_product_urls.update(urls_from_sitemap)
Updated(urls, urls_from_sitemap) == urls \cup Range(urls_from_sitemap)

\* list(all_product_urls) written as it comes, here in descending order
RECURSIVE Reversed(_)
Reversed(s) == IF s = <<>> THEN <<>> ELSE Append(Reversed(Tail(s)), Head(s))

UnsortedUrls(urls) == Reversed(sorted(urls))

\* line 108
SortedUrls(urls) == sorted(urls)

InitWith(inputs) ==
    /\ env \in inputs
    /\ pc = "step1"
    /\ index_calls = 0
    /\ index_headless = FALSE
    /\ index_page_content = None
    /\ sub_sitemaps = <<>>
    /\ executor = "none"
    /\ future_to_url = <<>>
    /\ processed = {}
    /\ all_product_urls = {}
    /\ sorted_urls = <<>>
    /\ output_file = env.disk
    /\ browsers = {}

Init == InitWith(Inputs)

InitPool == InitWith(PoolInputs)

\* line 71 down to line 37: the index call starts Chrome, or fails to
IndexCreate ==
    /\ pc = "step1"
    /\ index_calls' = index_calls + 1
    /\ index_headless' = IndexHeadlessMode
    /\ IF ChromeStarts(env.index)
       THEN /\ browsers' = browsers \cup {Browser(0, IndexHeadlessMode)}
            /\ pc' = "index_open"
            /\ UNCHANGED index_page_content
       ELSE /\ index_page_content' = None
            /\ pc' = "step1_check"
            /\ UNCHANGED browsers
    /\ UNCHANGED <<env, sub_sitemaps, executor, future_to_url, processed,
                   all_product_urls, sorted_urls, output_file>>

\* lines 38-52 of the index call: load, wait for <loc>, quit, return
IndexLoad ==
    /\ pc = "index_open"
    /\ index_page_content' = PageOrNone(env.index)
    /\ browsers' = Finally(browsers, Browser(0, index_headless))
    /\ pc' = "step1_check"
    /\ UNCHANGED <<env, index_calls, index_headless, sub_sitemaps, executor,
                   future_to_url, processed, all_product_urls, sorted_urls,
                   output_file>>

\* lines 73-76
ExitNoIndex ==
    /\ pc = "step1_check"
    /\ Falsy(index_page_content)
    /\ pc' = "exited"
    /\ UNCHANGED <<env, index_calls, index_headless, index_page_content,
                   sub_sitemaps, executor, future_to_url, processed,
                   all_product_urls, sorted_urls, output_file, browsers>>

\* lines 78-82
ExitNoSubs ==
    /\ pc = "step1_check"
    /\ ~Falsy(index_page_content)
    /\ sub_sitemaps' = parse_urls_from_sitemap_content(index_page_content)
    /\ sub_sitemaps' = <<>>
    /\ pc' = "exited"
    /\ UNCHANGED <<env, index_calls, index_headless, index_page_content,
                   executor, future_to_url, processed, all_product_urls,
                   sorted_urls, output_file, browsers>>

\* lines 78-91: sub-sitemaps found, the set and the pool are created
EnterStep2 ==
    /\ pc = "step1_check"
    /\ ~Falsy(index_page_content)
    /\ sub_sitemaps' = parse_urls_from_sitemap_content(index_page_content)
    /\ sub_sitemaps' # <<>>
    /\ all_product_urls' = {}
    /\ executor' = "open"
    /\ pc' = "submit"
    /\ UNCHANGED <<env, index_calls, index_headless, index_page_content,
                   future_to_url, processed, sorted_urls, output_file,
                   browsers>>

\* line 93: the comprehension submits the next entry of sub_sitemaps
Submit ==
    /\ pc = "submit"
    /\ NextEntry <= Len(sub_sitemaps)
    /\ future_to_url' = Append(future_to_url, Submitted(sub_sitemaps[NextEntry]))
    /\ pc' = IF Len(future_to_url') >= Len(sub_sitemaps)
             THEN "collect" ELSE "submit"
    /\ UNCHANGED <<env, index_calls, index_headless, index_page_content,
                   sub_sitemaps, executor, processed, all_product_urls,
                   sorted_urls, output_file, browsers>>

\* a pool thread takes the oldest queued work item and calls the function
WorkerStart(i) ==
    /\ executor = "open"
    /\ future_to_url[i].stage = "queued"
    /\ \A j \in 1..(i - 1) : future_to_url[j].stage # "queued"
    /\ PoolHasFreeWorker
    /\ future_to_url' = [future_to_url EXCEPT ![i].stage = "create",
                                              ![i].runs = @ + 1]
    /\ UNCHANGED <<env, pc, index_calls, index_headless, index_page_content,
                   sub_sitemaps, executor, processed, all_product_urls,
                   sorted_urls, output_file, browsers>>

\* lines 31-37 in a worker: Chrome starts, or raises and the call returns None
FetchCreate(i) ==
    /\ future_to_url[i].stage = "create"
    /\ IF ChromeStarts(env.sub[i])
       THEN /\ browsers' = browsers
                    \cup {Browser(i, future_to_url[i].headless)}
            /\ future_to_url' = [future_to_url EXCEPT ![i].stage = "open"]
       ELSE /\ future_to_url' = [future_to_url EXCEPT ![i].stage = "done",
                                                      ![i].result = None]
            /\ UNCHANGED browsers
    /\ UNCHANGED <<env, pc, index_calls, index_headless, index_page_content,
                   sub_sitemaps, executor, processed, all_product_urls,
                   sorted_urls, output_file>>

\* lines 38-52 in a worker: load, wait for <loc>, quit, return
FetchLoad(i) ==
    /\ future_to_url[i].stage = "open"
    /\ future_to_url' = [future_to_url EXCEPT
                            ![i].stage = "done",
                            ![i].result = PageOrNone(env.sub[i])]
    /\ browsers' = Finally(browsers, Browser(i, future_to_url[i].headless))
    /\ UNCHANGED <<env, pc, index_calls, index_headless, index_page_content,
                   sub_sitemaps, executor, processed, all_product_urls,
                   sorted_urls, output_file>>

\* lines 95-102: as_completed yields a finished future, its URLs are merged.
\* future.result() returns: fetch_page_with_uc catches every Exception of
\* its session, so the except branch of line 101 is not taken.
Collect(i) ==
    /\ pc = "collect"
    /\ i \notin processed
    /\ future_to_url[i].stage = "done"
    /\ LET urls_from_sitemap ==
               parse_urls_from_sitemap_content(future_to_url[i].result)
       IN all_product_urls' =
              IF urls_from_sitemap # <<>>
              THEN Updated(all_product_urls, urls_from_sitemap)
              ELSE all_product_urls
    /\ processed' = processed \cup {i}
    /\ UNCHANGED <<env, pc, index_calls, index_headless, index_page_content,
                   sub_sitemaps, executor, future_to_url, sorted_urls,
                   output_file, browsers>>

\* line 95 exhausted, the with block of line 91 ends: shutdown(wait=True)
CloseExecutor ==
    /\ pc = "collect"
    /\ processed = DOMAIN future_to_url
    /\ executor' = "shutdown"
    /\ pc' = "save"
    /\ UNCHANGED <<env, index_calls, index_headless, index_page_content,
                   sub_sitemaps, future_to_url, processed, all_product_urls,
                   sorted_urls, output_file, browsers>>

\* lines 104-112: sort, open the file for writing, one write per URL
Save ==
    /\ pc = "save"
    /\ sorted_urls' = SortedUrls(all_product_urls)
    /\ output_file' = FileWith(FileText(sorted_urls'))
    /\ pc' = "done"
    /\ UNCHANGED <<env, index_calls, index_headless, index_page_content,
                   sub_sitemaps, executor, future_to_url, processed,
                   all_product_urls, browsers>>

Next ==
    \/ IndexCreate
    \/ IndexLoad
    \/ ExitNoIndex
    \/ ExitNoSubs
    \/ EnterStep2
    \/ Submit
    \/ \E i \in DOMAIN future_to_url : WorkerStart(i)
    \/ \E i \in DOMAIN future_to_url : FetchCreate(i)
    \/ \E i \in DOMAIN future_to_url : FetchLoad(i)
    \/ \E i \in DOMAIN future_to_url : Collect(i)
    \/ CloseExecutor
    \/ Save

Spec == Init /\ [][Next]_vars

SpecPool == InitPool /\ [][Next]_vars

----------------------------------------------------------------------------
(* Vocabulary of the properties *)

Futures == DOMAIN future_to_url

Stage(i) == future_to_url[i].stage

\* the session of entry i returns a page / returns None
Succeeds(i) == env.sub[i].kind = "loads"

\* the <loc> texts of the page that entry i serves, read off the markup
LocTexts(markup) ==
    {markup[k].text : k \in {j \in 1..Len(markup) : markup[j].tag = "loc"}}

Parsable(markup) == \A k \in 1..Len(markup) : markup[k].tag # "junk"

ServedUrls(i) ==
    IF Succeeds(i) /\ Parsable(env.sub[i].markup)
    THEN LocTexts(env.sub[i].markup) ELSE {}

Step2Over == pc \in {"save", "done"}

----------------------------------------------------------------------------
(* C1: step 2 submits exactly one fetch_page_with_uc call per entry of      *)
(* sub_sitemaps, in the order of the list and with headless_mode=True; the  *)
(* pool runs every one of them exactly once: none is skipped, none is run   *)
(* twice, and every browser a worker opens is headless.                     *)
C1_OneHeadlessFetchPerEntry ==
    /\ Len(future_to_url) <= Len(sub_sitemaps)
    /\ \A i \in Futures :
          /\ future_to_url[i].url = sub_sitemaps[i]
          /\ future_to_url[i].headless
          /\ future_to_url[i].runs = (IF Stage(i) = "queued" THEN 0 ELSE 1)
    /\ \A b \in browsers : b.owner # 0 => b.headless
    /\ pc \in {"collect", "save", "done"} =>
          Len(future_to_url) = Len(sub_sitemaps)
    /\ Step2Over => \A i \in Futures : future_to_url[i].runs = 1

\* the script finished after fetching two sub-sitemaps, each once
C1_Witness ==
    /\ pc = "done"
    /\ Len(sub_sitemaps) >= 2
    /\ sub_sitemaps[1] # sub_sitemaps[2]
    /\ \A i \in Futures : future_to_url[i].runs = 1

(* C2: at any moment at most MAX_WORKERS sub-sitemap fetches are executing  *)
(* and at most MAX_WORKERS browsers are open, however many sub-sitemap URLs *)
(* the index lists.                                                         *)
C2_PoolBounded ==
    /\ Cardinality(Running) <= MAX_WORKERS
    /\ Cardinality(browsers) <= MAX_WORKERS

\* more entries than workers: the pool is full, all its browsers are open and
\* a submitted fetch is waiting in the queue
C2_Witness ==
    /\ Len(sub_sitemaps) > MAX_WORKERS
    /\ Cardinality(Running) = MAX_WORKERS
    /\ Cardinality(browsers) = MAX_WORKERS
    /\ \E i \in Futures : Stage(i) = "queued"

(* C3: there is no retry and a failure stays with its URL. A fetch that     *)
(* fails returns None, which parses to the empty list, and no future is run *)
(* a second time; when step 2 is over every sub-sitemap whose fetch         *)
(* succeeded has been fetched and all its <loc> texts are in the set, and   *)
(* once the file is written they are among the URLs written to it.          *)
C3_FailureConfined ==
    /\ \A i \in Futures :
          /\ future_to_url[i].runs <= 1
          /\ Stage(i) = "done" =>
                /\ future_to_url[i].result.is_none <=> ~Succeeds(i)
                /\ ~Succeeds(i) =>
                      parse_urls_from_sitemap_content(future_to_url[i].result)
                          = <<>>
    /\ Step2Over =>
          \A j \in 1..Len(sub_sitemaps) :
              /\ j \in Futures
              /\ Stage(j) = "done" /\ future_to_url[j].runs = 1
              /\ ServedUrls(j) \subseteq all_product_urls
    /\ pc = "done" =>
          /\ output_file = FileWith(FileText(sorted_urls))
          /\ \A j \in 1..Len(sub_sitemaps) :
                ServedUrls(j) \subseteq Range(sorted_urls)

\* the script finished, one sub-sitemap fetch failed after its browser was
\* open, and the URLs of another one were written
C3_Witness ==
    /\ pc = "done"
    /\ \E i, j \in Futures :
          /\ env.sub[i] = TimesOut
          /\ ServedUrls(j) # {}
          /\ ServedUrls(j) \subseteq Range(sorted_urls)

(* C4: the index is fetched exactly once, with a visible browser and while  *)
(* nothing else runs, and that call has returned, its browser closed,       *)
(* before the pool exists or any sub-sitemap fetch is submitted.            *)
C4_IndexFetchedOnceFirst ==
    /\ index_calls = (IF pc = "step1" THEN 0 ELSE 1)
    /\ \A b \in browsers : b.owner = 0 => ~b.headless
    /\ pc # "step1" => ~index_headless
    /\ pc \in {"step1", "index_open"} =>
          /\ executor = "none"
          /\ future_to_url = <<>>
          /\ \A b \in browsers : b.owner = 0
    /\ pc = "index_open" => browsers = {Browser(0, FALSE)}
    /\ (executor # "none" \/ future_to_url # <<>>) =>
          /\ pc \notin {"step1", "index_open", "step1_check"}
          /\ ~Falsy(index_page_content)
          /\ \A b \in browsers : b.owner # 0

\* a worker's browser is open: the index was fetched once, and is closed
C4_Witness ==
    /\ index_calls = 1
    /\ \E i \in Futures : Browser(i, TRUE) \in browsers
    /\ \A b \in browsers : b.owner # 0

(* C5: the file is written only after every submitted fetch has completed   *)
(* and been merged, and it then holds the URLs of the accumulated set one   *)
(* per line: its lines are the elements of the set, each once, in ascending *)
(* order.                                                                   *)
C5_OneUrlPerLineSorted ==
    /\ output_file # env.disk =>
          /\ pc = "done"
          /\ processed = 1..Len(sub_sitemaps)
          /\ \A i \in Futures : Stage(i) = "done"
    /\ pc = "done" =>
          /\ output_file.exists
          /\ Lines(output_file.data) = sorted(all_product_urls)

(* C6: all_product_urls only accumulates: no step removes an element from  *)
(* it, and when step 2 is over it is exactly the union of the <loc> texts   *)
(* of the sub-sitemaps whose fetch succeeded: it holds nothing else, so a   *)
(* sub-sitemap URL of the index is in it only if a sub-sitemap lists it.    *)
C6_SetAccumulates ==
    /\ [](Step2Over =>
            all_product_urls =
                UNION {ServedUrls(i) : i \in 1..Len(sub_sitemaps)})
    /\ [][all_product_urls \subseteq all_product_urls']_vars

\* step 2 is over, the set is the union of two sub-sitemaps that list
\* different URLs, and the first sub-sitemap URL itself is not in the set
C6_Witness ==
    /\ Step2Over
    /\ \E i, j \in Futures :
          /\ ServedUrls(i) # {} /\ ServedUrls(j) # {}
          /\ ServedUrls(i) \cap ServedUrls(j) = {}
          /\ all_product_urls = ServedUrls(i) \cup ServedUrls(j)
    /\ sub_sitemaps[1] \notin all_product_urls

(* C7: when the index fetch returns None or an empty page, or the index     *)
(* page yields no <loc> URL, the script exits straight after step 1: no     *)
(* pool exists, no sub-sitemap fetch was issued, no headless browser was    *)
(* opened and the output file is as it was before the run.                  *)
C7_ExitWithoutIndex ==
    LET index_unusable ==
            \/ env.index.kind # "loads"
            \/ LocTexts(env.index.markup) = {}
            \/ ~Parsable(env.index.markup)
    IN /\ (index_unusable /\ pc \notin {"step1", "index_open", "step1_check"})
              => pc = "exited"
       /\ pc = "exited" =>
              /\ index_unusable
              /\ executor = "none"
              /\ future_to_url = <<>>
              /\ all_product_urls = {}
              /\ browsers = {}
              /\ index_calls = 1
              /\ output_file = env.disk

\* the index page was retrieved but has no <loc>; the file of an earlier run
\* is still there
C7_Witness ==
    /\ pc = "exited"
    /\ ~Falsy(index_page_content)
    /\ output_file = StaleFile

(* C8: every browser a call of fetch_page_with_uc creates is quit before    *)
(* the call returns, on every path: an open browser always belongs to a     *)
(* call that is still in progress, so no browser is open when no fetch is   *)
(* in progress, when the script writes its file or when it exits.           *)
C8_BrowsersQuit ==
    /\ \A b \in browsers :
          \/ b.owner = 0 /\ pc = "index_open"
          \/ b.owner \in Futures /\ Stage(b.owner) = "open"
    /\ (pc # "index_open" /\ Running = {}) => browsers = {}
    /\ pc \in {"save", "done", "exited"} => browsers = {}

\* the script finished; one fetch had its browser open when it timed out and
\* another one returned its page
C8_Witness ==
    /\ pc = "done"
    /\ browsers = {}
    /\ \E i, j \in Futures : env.sub[i] = TimesOut /\ Succeeds(j)

(* C9: the output does not depend on scheduling: the written file is a      *)
(* function of what the index and each sub-sitemap URL served, the same for *)
(* every interleaving of the workers and every order in which as_completed  *)
(* yields; and only the main thread changes all_product_urls, in a step     *)
(* that changes no future and no browser.                                   *)
C9_OutputIndependentOfSchedule ==
    /\ [](pc = "done" =>
            output_file =
                FileWith(FileText(sorted(
                    UNION {ServedUrls(i) : i \in 1..Len(Listed(env.index))}))))
    /\ [][all_product_urls' # all_product_urls =>
            /\ pc = "collect" /\ pc' = "collect"
            /\ future_to_url' = future_to_url
            /\ browsers' = browsers
            /\ \E i \in Futures : Stage(i) = "done" /\ processed' = processed \cup {i}
         ]_vars

\* the second future was merged while the first had not even started its
\* browser, and the two serve different URLs
C9_Witness ==
    /\ pc = "collect"
    /\ 2 \in processed
    /\ Stage(1) \in {"queued", "create"}
    /\ ServedUrls(1) # {} /\ ServedUrls(2) # {}
    /\ ServedUrls(1) # ServedUrls(2)

====
